---- MODULE Spec2Model ----
(***************************************************************************)
(* rocprofiler::Tracker (src/core/tracker.h): the registry of in-flight    *)
(* dispatches and the completion pipeline of one entry.                    *)
(*                                                                         *)
(* Threads: one producer per entry (Alloc, then Enable), the runtime's     *)
(* notification thread running the static callback Handler for an entry,   *)
(* and the thread that runs ~Tracker.  The device is the environment: it   *)
(* drops a proxy signal to 0 and stamps its start_ts/end_ts.               *)
(*                                                                         *)
(* Assumptions on the caller (object lifetime): ~Tracker starts only when  *)
(* no Alloc or Enable call is in progress and every allocated entry has    *)
(* been armed, and no Alloc or Enable starts afterwards.                   *)
(*                                                                         *)
(* An access to freed or destroyed memory is undefined behaviour.  Its     *)
(* outcomes here: the access sees the stale contents or, for plain data    *)
(* (arg, context_active, orig), some other value; a crash stops every      *)
(* thread, which is the behaviour that takes no further step.  ub records  *)
(* that such an access to an entry, a list node or the Tracker's members   *)
(* has happened; a second hsa_signal_destroy is counted in destroys.       *)
(***************************************************************************)
EXTENDS Integers, Sequences, FiniteSets, TLC

\* Number of entries ever allocated in a run.
MaxEntries == 2

Entries == 1..MaxEntries

\* The list's end() sentinel; also the "no node" value of an iterator.
END == 0
Nodes == Entries \cup {END}

\* The null handle of hsa_signal_t, and the one caller-owned original signal.
NullHandle == 0
OrigHandle == 1
OrigHandles == {NullHandle, OrigHandle}

\* The value the caller's original signal starts with: one unit per dispatch.
OrigInitValue == MaxEntries

Agents == {"agent0"}

NULL == "NULL"
HsaHandlers == {"hsa_handler"}
RocpHandlers == {"rocp_handler"}
Garbage == "garbage"
\* The opaque argument the caller passes to Enable for entry e.
UserArg(e) == <<"arg1", "arg2", "arg3", "arg4">>[e]

\* Device timestamps (sysclock ticks) the hardware writes into the proxy
\* signal of entry e when its dispatch finishes.
HwStart(e) == 2 * e + 1
HwEnd(e) == 2 * e + 2

\* mutex_ owners.
Free == <<"free", 0>>
Producer(e) == <<"alloc", e>>
Callback(e) == <<"handler", e>>
Dtor == <<"dtor", 0>>

VARIABLES
  pcA,          \* producer of entry e: its place in Alloc / Enable
  pcH,          \* notification thread of entry e: its place in Handler
  pcD,          \* the thread running ~Tracker
  entry,        \* entry_t fields of entry e
  entryMem,     \* "none" | "live" | "freed": the memory of entry e
  record,       \* record_t of entry e
  sig,          \* proxy signal of entry e
  asyncReg,     \* Handler is registered with the runtime for entry e's signal
  origSig,      \* the caller's original signal (handle OrigHandle)
  nxt, prv,     \* sig_list_: next/prev pointers of the nodes (END: sentinel)
  nodeMem,      \* "none" | "live" | "freed": the list node of entry e
  mutex_,       \* owner of mutex_
  trackerAlive, \* the Tracker's members are not yet destroyed
  it, cur,      \* ~Tracker's iterators
  loc,          \* Handler's locals for entry e
  enable,       \* the arguments of the Enable call for entry e
  calls,        \* history: user handler invocations of entry e
  userReturned, \* history: the user handler of entry e has returned
  removals,     \* history: executions of sig_list_.erase for entry e
  destroys,     \* history: hsa_signal_destroy calls on entry e's signal
  ub            \* history: undefined behaviour that has occurred

vars == <<pcA, pcH, pcD, entry, entryMem, record, sig, asyncReg,
          origSig, nxt, prv, nodeMem, mutex_, trackerAlive, it, cur, loc,
          enable, calls, userReturned, removals, destroys, ub>>

prodVars == <<pcA, enable>>
listVars == <<nxt, prv, nodeMem>>
dtorVars == <<pcD, it, cur, trackerAlive>>
histVars == <<calls, userReturned>>

\* new entry_t{} : value-initialised
entry_t == [tracker |-> NULL, it |-> END, agent |-> NULL, orig |-> NullHandle,
            signal |-> NullHandle, handler |-> NULL, arg |-> NULL,
            context_active |-> FALSE]

\* new record_t{} : value-initialised
record_t == [dispatch |-> 0, begin |-> 0, end |-> 0, complete |-> 0]

Init ==
  /\ pcA = [e \in Entries |-> "idle"]
  /\ pcH = [e \in Entries |-> "none"]
  /\ pcD = "idle"
  /\ entry = [e \in Entries |-> entry_t]
  /\ entryMem = [e \in Entries |-> "none"]
  /\ record = [e \in Entries |-> record_t]
  /\ sig = [e \in Entries |-> [state |-> "none", value |-> 0, start_ts |-> 0, end_ts |-> 0]]
  /\ asyncReg = [e \in Entries |-> FALSE]
  /\ origSig = [value |-> OrigInitValue, start_ts |-> 0, end_ts |-> 0]
  /\ nxt = [n \in Nodes |-> END]
  /\ prv = [n \in Nodes |-> END]
  /\ nodeMem = [e \in Entries |-> "none"]
  /\ mutex_ = Free
  /\ trackerAlive = TRUE
  /\ it = END
  /\ cur = END
  /\ loc = [e \in Entries |-> [orig |-> NullHandle, value |-> 0]]
  /\ enable = [e \in Entries |-> [handler |-> NULL, arg |-> NULL, hsa |-> FALSE]]
  /\ calls = [e \in Entries |-> <<>>]
  /\ userReturned = [e \in Entries |-> FALSE]
  /\ removals = [e \in Entries |-> 0]
  /\ destroys = [e \in Entries |-> 0]
  /\ ub = FALSE

----------------------------------------------------------------------------
\* Collaborators that live outside tracker.h.

\* util::HsaRsrcFactory::TimestampNs: the host clock's reading, which is never
\* 0; the host clock does not tick within the window of a run.
TimestampNs == 7 * 10

\* util::HsaRsrcFactory::SysclockToNs: device ticks to the host clock domain.
SysclockToNs(t) == t * 10

\* util::HsaRsrcFactory::SignalWait returns once the signal's value is below 1.
SignalWaitDone(s) == sig[s].value < 1

\* EXC_RAISING throws: the calling operation stops at this point.
EXC_RAISING(pc, e, where) == [pc EXCEPT ![e] = where]

----------------------------------------------------------------------------
\* Undefined-behaviour bookkeeping.

EntryUaf(e) == IF entryMem[e] = "freed" THEN {"uaf_entry"} ELSE {}
NodeUaf(n) == IF n # END /\ nodeMem[n] = "freed" THEN {"uaf_node"} ELSE {}
TrackerUaf == IF trackerAlive THEN {} ELSE {"uaf_tracker"}

\* A plain data field of a freed entry reads as its stale value or as other.
ReadField(e, stale, other) == IF entryMem[e] = "freed" THEN {stale} \cup other ELSE {stale}

----------------------------------------------------------------------------
\* Alloc (producer thread)

ProducersOpen == pcD = "idle"

\* lines 83-97: the entry, its record and its proxy signal
\* (hsa_signal_create(1, ...)), or the error is raised; ids are given in
\* allocation order
AllocCreate(e) ==
  /\ ProducersOpen
  /\ pcA[e] = "idle"
  /\ \A f \in Entries : f < e => pcA[f] # "idle"
  /\ entryMem' = [entryMem EXCEPT ![e] = "live"]
  /\ record' = [record EXCEPT ![e] = [record_t EXCEPT !.dispatch = TimestampNs]]
  /\ \E agent \in Agents, orig \in OrigHandles :
       \/ /\ sig' = [sig EXCEPT ![e].state = "live", ![e].value = 1]
          /\ entry' = [entry EXCEPT ![e] = [entry_t EXCEPT !.tracker = "this",
                                                       !.agent = agent,
                                                       !.orig = orig,
                                                       !.signal = e]]
          /\ pcA' = [pcA EXCEPT ![e] = "created"]
       \/ /\ entry' = [entry EXCEPT ![e] = [entry_t EXCEPT !.tracker = "this",
                                                       !.agent = agent,
                                                       !.orig = orig]]
          /\ pcA' = EXC_RAISING(pcA, e, "raised_create")
          /\ UNCHANGED sig
  /\ UNCHANGED <<pcH, asyncReg, origSig, listVars, mutex_, dtorVars,
                 loc, enable, histVars, removals, destroys, ub>>

\* AllocRegister with the insertion done before the registration and not undone
\* when the registration fails
AllocRegister_InsertsFirst(e) ==
  /\ ProducersOpen
  /\ pcA[e] = "created"
  /\ \/ /\ asyncReg' = [asyncReg EXCEPT ![e] = TRUE]
        /\ pcA' = [pcA EXCEPT ![e] = "registered"]
        /\ UNCHANGED <<entry, listVars>>
     \/ /\ nxt' = [nxt EXCEPT ![e] = nxt[END], ![END] = e]
        /\ prv' = [n \in Nodes |-> IF n = e THEN END
                                   ELSE IF n = nxt[END] THEN e
                                   ELSE prv[n]]
        /\ nodeMem' = [nodeMem EXCEPT ![e] = "live"]
        /\ entry' = [entry EXCEPT ![e].it = e]
        /\ pcA' = EXC_RAISING(pcA, e, "raised_register")
        /\ UNCHANGED asyncReg
  /\ UNCHANGED <<pcH, entryMem, record, sig, origSig, mutex_, dtorVars, loc,
                 enable, histVars, removals, destroys, ub>>

\* lines 98-99: hsa_amd_signal_async_handler(..., LT, 1, Handler, entry)
AllocRegister(e) ==
  /\ ProducersOpen
  /\ pcA[e] = "created"
  /\ \/ /\ asyncReg' = [asyncReg EXCEPT ![e] = TRUE]
        /\ pcA' = [pcA EXCEPT ![e] = "registered"]
     \/ /\ pcA' = EXC_RAISING(pcA, e, "raised_register")
        /\ UNCHANGED asyncReg
  /\ UNCHANGED <<pcH, entry, entryMem, record, sig, origSig, listVars,
                 mutex_, dtorVars, loc, enable, histVars, removals,
                 destroys, ub>>

\* line 102
AllocLock(e) ==
  /\ ProducersOpen
  /\ pcA[e] = "registered"
  /\ mutex_ = Free
  /\ mutex_' = Producer(e)
  /\ pcA' = [pcA EXCEPT ![e] = "locked"]
  /\ UNCHANGED <<pcH, entry, entryMem, record, sig, asyncReg, origSig,
                 listVars, dtorVars, loc, enable, histVars, removals,
                 destroys, ub>>

\* lines 103-106: entry->it = sig_list_.insert(sig_list_.begin(), entry);
\* mutex_.unlock(); return entry
AllocInsert(e) ==
  /\ ProducersOpen
  /\ pcA[e] = "locked"
  /\ mutex_ = Producer(e)
  /\ nxt' = [nxt EXCEPT ![e] = nxt[END], ![END] = e]
  /\ prv' = [n \in Nodes |-> IF n = e THEN END
                             ELSE IF n = nxt[END] THEN e
                             ELSE prv[n]]
  /\ nodeMem' = [nodeMem EXCEPT ![e] = "live"]
  /\ entry' = [entry EXCEPT ![e].it = e]
  /\ mutex_' = Free
  /\ pcA' = [pcA EXCEPT ![e] = "allocated"]
  /\ UNCHANGED <<pcH, entryMem, record, sig, asyncReg, origSig,
                 dtorVars, loc, enable, histVars, removals, destroys, ub>>

----------------------------------------------------------------------------
\* Enable (producer thread, after Alloc has returned the entry)

\* lines 132-134, 121: the hsa_amd_signal_handler overload sets
\* context_active, then entry->arg = arg
EnableHsa(e) ==
  /\ ProducersOpen
  /\ pcA[e] = "allocated"
  /\ \E h \in HsaHandlers :
       enable' = [enable EXCEPT ![e] = [handler |-> h, arg |-> UserArg(e), hsa |-> TRUE]]
  /\ entry' = [entry EXCEPT ![e].context_active = TRUE, ![e].arg = UserArg(e)]
  /\ pcA' = [pcA EXCEPT ![e] = "en_store"]
  /\ UNCHANGED <<pcH, entryMem, record, sig, asyncReg, origSig, listVars,
                 mutex_, dtorVars, loc, histVars, removals, destroys, ub>>

\* lines 136-137, 121: the rocprofiler_handler_t overload leaves
\* context_active as it is, then entry->arg = arg
EnableRocp(e) ==
  /\ ProducersOpen
  /\ pcA[e] = "allocated"
  /\ \E h \in RocpHandlers :
       enable' = [enable EXCEPT ![e] = [handler |-> h, arg |-> UserArg(e), hsa |-> FALSE]]
  /\ entry' = [entry EXCEPT ![e].arg = UserArg(e)]
  /\ pcA' = [pcA EXCEPT ![e] = "en_store"]
  /\ UNCHANGED <<pcH, entryMem, record, sig, asyncReg, origSig, listVars,
                 mutex_, dtorVars, loc, histVars, removals, destroys, ub>>

\* line 122: entry->handler.store(handler, release); trace_on_ is false
EnableStore(e) ==
  /\ ProducersOpen
  /\ pcA[e] = "en_store"
  /\ entry' = [entry EXCEPT ![e].handler = enable[e].handler]
  /\ pcA' = [pcA EXCEPT ![e] = "enabled"]
  /\ UNCHANGED <<pcH, entryMem, record, sig, asyncReg, origSig, listVars,
                 mutex_, dtorVars, loc, enable, histVars, removals,
                 destroys, ub>>

----------------------------------------------------------------------------
\* The device: the dispatch that carries the proxy signal finishes.

SignalDrop(e) ==
  /\ sig[e].state = "live"
  /\ sig[e].value = 1
  /\ sig' = [sig EXCEPT ![e].value = 0, ![e].start_ts = HwStart(e),
                         ![e].end_ts = HwEnd(e)]
  /\ UNCHANGED <<prodVars, pcH, entry, entryMem, record, asyncReg, origSig,
                 listVars, mutex_, dtorVars, loc, histVars, removals,
                 destroys, ub>>

----------------------------------------------------------------------------
\* Delete (lines 110-116), run by Handler and, through Erase, by ~Tracker.
\* Each operator is one statement of Delete on the entry pointer e.

\* history counters stop counting at CountCap
CountCap == 2
Bump(n) == IF n < CountCap THEN n + 1 ELSE n

\* the undefined behaviour of the statement of Delete at `step`
DeleteStepUB(step, e) ==
  CASE step = "del_destroy" ->
         EntryUaf(e)
    [] step = "del_lock" -> TrackerUaf
    [] step = "del_erase" ->
         EntryUaf(e) \cup TrackerUaf
           \cup (IF nodeMem[entry[e].it] # "live" THEN {"double_erase"} ELSE {})
    [] step = "del_free" -> IF entryMem[e] = "freed" THEN {"double_free"} ELSE {}
    [] OTHER -> {}

\* line 111: hsa_signal_destroy(entry->signal)
DeleteDestroy(e) ==
  /\ sig' = [sig EXCEPT ![e].state = "destroyed"]
  /\ destroys' = [destroys EXCEPT ![e] = Bump(@)]
  /\ ub' = (ub \/ {} # DeleteStepUB("del_destroy", e))
  /\ UNCHANGED <<mutex_, listVars, removals, entryMem>>

\* line 112: mutex_.lock()
DeleteLock(e, thread) ==
  /\ mutex_ = Free
  /\ mutex_' = thread
  /\ ub' = (ub \/ {} # DeleteStepUB("del_lock", e))
  /\ UNCHANGED <<sig, destroys, listVars, removals, entryMem>>

\* lines 113-114: sig_list_.erase(entry->it) unhooks the node through its own
\* pointers and frees it; mutex_.unlock()
DeleteErase(e) ==
  LET p == entry[e].it IN
  /\ p # END
  /\ nxt' = [nxt EXCEPT ![prv[p]] = nxt[p]]
  /\ prv' = [prv EXCEPT ![nxt[p]] = prv[p]]
  /\ nodeMem' = [nodeMem EXCEPT ![p] = "freed"]
  /\ removals' = [removals EXCEPT ![e] = Bump(@)]
  /\ mutex_' = Free
  /\ ub' = (ub \/ {} # DeleteStepUB("del_erase", e))
  /\ UNCHANGED <<sig, destroys, entryMem>>

\* line 115: delete entry
DeleteFree(e) ==
  /\ entryMem' = [entryMem EXCEPT ![e] = "freed"]
  /\ ub' = (ub \/ {} # DeleteStepUB("del_free", e))
  /\ UNCHANGED <<sig, destroys, mutex_, listVars, removals>>

----------------------------------------------------------------------------
\* Handler (lines 178-200), the static callback, on a notification thread

\* the undefined behaviour of Handler's next statement for entry e
HandlerStepUB(e) ==
  CASE pcH[e] = "spin" -> EntryUaf(e)
    [] pcH[e] = "complete" -> EntryUaf(e) \cup TrackerUaf
    [] pcH[e] = "orig" -> EntryUaf(e)
    [] pcH[e] = "call" -> EntryUaf(e)
    [] OTHER -> DeleteStepUB(pcH[e], e)

\* the runtime invokes the registered callback once the condition (value < 1)
\* holds for the signal
HandlerFire(e) ==
  /\ asyncReg[e]
  /\ pcH[e] = "none"
  /\ sig[e].state = "live"
  /\ sig[e].value < 1
  /\ pcH' = [pcH EXCEPT ![e] = "spin"]
  /\ UNCHANGED <<prodVars, entry, entryMem, record, sig, asyncReg, origSig,
                 listVars, mutex_, dtorVars, loc, histVars, removals,
                 destroys, ub>>

\* HandlerSpin without the wait for a non-null handler
HandlerSpin_NoWait(e) ==
  /\ pcH[e] = "spin"
  /\ pcH' = [pcH EXCEPT ![e] = "complete"]
  /\ UNCHANGED <<prodVars, entry, entryMem, record, sig, asyncReg, origSig,
                 listVars, mutex_, dtorVars, loc, histVars, removals, destroys,
                 ub>>

\* HandlerSpin with a bounded wait: when the handler is still null the callback
\* gives up and returns
HandlerSpin_GivesUp(e) ==
  /\ pcH[e] = "spin"
  /\ IF entry[e].handler # NULL
       THEN pcH' = [pcH EXCEPT ![e] = "complete"] /\ UNCHANGED asyncReg
       ELSE pcH' = [pcH EXCEPT ![e] = "done"]
            /\ asyncReg' = [asyncReg EXCEPT ![e] = FALSE]
  /\ ub' = (ub \/ {} # HandlerStepUB(e))
  /\ UNCHANGED <<prodVars, entry, entryMem, record, sig, origSig,
                 listVars, mutex_, dtorVars, loc, histVars, removals,
                 destroys>>

\* lines 180-182: while (ptr->load(acquire) == NULL) sched_yield();
HandlerSpin(e) ==
  /\ pcH[e] = "spin"
  /\ entry[e].handler # NULL
  /\ pcH' = [pcH EXCEPT ![e] = "complete"]
  /\ ub' = (ub \/ {} # HandlerStepUB(e))
  /\ UNCHANGED <<prodVars, entry, entryMem, record, sig, asyncReg, origSig,
                 listVars, mutex_, dtorVars, loc, histVars, removals,
                 destroys>>

\* HandlerComplete stamping through one record shared by all entries
HandlerComplete_SharedRecord(e) ==
  /\ pcH[e] = "complete"
  /\ record' = [f \in Entries |->
                  [record[f] EXCEPT !.begin = SysclockToNs(sig[e].start_ts),
                                    !.end = SysclockToNs(sig[e].end_ts),
                                    !.complete = TimestampNs]]
  /\ pcH' = [pcH EXCEPT ![e] = "orig"]
  /\ UNCHANGED <<prodVars, entry, entryMem, sig, asyncReg, origSig, listVars,
                 mutex_, dtorVars, loc, histVars, removals, destroys, ub>>

\* HandlerComplete writing the record before it looks at the status of
\* hsa_amd_profiling_get_dispatch_time
HandlerComplete_StampsBeforeCheck(e) ==
  /\ pcH[e] = "complete"
  /\ record' = [record EXCEPT ![e].begin = SysclockToNs(sig[e].start_ts),
                              ![e].end = SysclockToNs(sig[e].end_ts),
                              ![e].complete = TimestampNs]
  /\ \/ pcH' = [pcH EXCEPT ![e] = "orig"]
     \/ pcH' = EXC_RAISING(pcH, e, "raised_time")
  /\ ub' = (ub \/ {} # HandlerStepUB(e))
  /\ UNCHANGED <<prodVars, entry, entryMem, sig, asyncReg, origSig,
                 listVars, mutex_, dtorVars, loc, histVars, removals, destroys>>

\* lines 185, 146-162: Complete up to the stamped record, or the error is raised
HandlerComplete(e) ==
  /\ pcH[e] = "complete"
  /\ \/ /\ record' = [record EXCEPT ![e].begin = SysclockToNs(sig[e].start_ts),
                                    ![e].end = SysclockToNs(sig[e].end_ts),
                                    ![e].complete = TimestampNs]
              /\ pcH' = [pcH EXCEPT ![e] = "orig"]
     \/ /\ pcH' = EXC_RAISING(pcH, e, "raised_time")
        /\ UNCHANGED record
  /\ ub' = (ub \/ {} # HandlerStepUB(e))
  /\ UNCHANGED <<prodVars, entry, entryMem, sig, asyncReg, origSig,
                 listVars, mutex_, dtorVars, loc, histVars, removals, destroys>>

\* lines 165-170: orig = entry->orig; if (orig.handle) the proxy signal's
\* start_ts and end_ts are forwarded to the original signal
HandlerOrig(e) ==
  /\ pcH[e] = "orig"
  /\ \E o \in ReadField(e, entry[e].orig, OrigHandles) :
       /\ loc' = [loc EXCEPT ![e].orig = o]
       /\ IF o # NullHandle
            THEN /\ origSig' = [origSig EXCEPT !.start_ts = sig[e].start_ts,
                                               !.end_ts = sig[e].end_ts]
                 /\ pcH' = [pcH EXCEPT ![e] = "load"]
            ELSE /\ pcH' = [pcH EXCEPT ![e] = "call"]
                 /\ UNCHANGED origSig
  /\ ub' = (ub \/ {} # HandlerStepUB(e))
  /\ UNCHANGED <<prodVars, entry, entryMem, record, sig, asyncReg,
                 listVars, mutex_, dtorVars, histVars, removals, destroys>>

\* line 172: value = hsa_signal_load_relaxed(orig)
HandlerLoad(e) ==
  /\ pcH[e] = "load"
  /\ loc' = [loc EXCEPT ![e].value = origSig.value]
  /\ pcH' = [pcH EXCEPT ![e] = "store"]
  /\ UNCHANGED <<prodVars, entry, entryMem, record, sig, asyncReg, origSig,
                 listVars, mutex_, dtorVars, histVars, removals, destroys,
                 ub>>

\* HandlerStore writing the loaded value back without the decrement
HandlerStore_NoDecrement(e) ==
  /\ pcH[e] = "store"
  /\ origSig' = [origSig EXCEPT !.value = loc[e].value]
  /\ pcH' = [pcH EXCEPT ![e] = "call"]
  /\ UNCHANGED <<prodVars, entry, entryMem, record, sig, asyncReg,
                 listVars, mutex_, dtorVars, loc, histVars, removals,
                 destroys, ub>>

\* line 173: hsa_signal_store_screlease(orig, value - 1)
HandlerStore(e) ==
  /\ pcH[e] = "store"
  /\ origSig' = [origSig EXCEPT !.value = loc[e].value - 1]
  /\ pcH' = [pcH EXCEPT ![e] = "call"]
  /\ UNCHANGED <<prodVars, entry, entryMem, record, sig, asyncReg,
                 listVars, mutex_, dtorVars, loc, histVars, removals,
                 destroys, ub>>

\* lines 188-194: the stored handler is called by the convention context_active
\* selects: handler(0, arg) or handler(group{}, arg)
HandlerCall(e) ==
  /\ pcH[e] = "call"
  /\ \E ctx \in ReadField(e, entry[e].context_active, BOOLEAN),
        a \in ReadField(e, entry[e].arg, {Garbage}) :
       /\ calls' = [calls EXCEPT ![e] =
            Append(@, [handler |-> entry[e].handler,
                       conv |-> IF ctx THEN "hsa" ELSE "rocp",
                       arg |-> a])]
  /\ pcH' = [pcH EXCEPT ![e] = "in_user"]
  /\ ub' = (ub \/ {} # HandlerStepUB(e))
  /\ UNCHANGED <<prodVars, entry, entryMem, record, sig, asyncReg, origSig,
                 listVars, mutex_, dtorVars, loc, userReturned, removals,
                 destroys>>

\* the user handler returns to Handler
HandlerUserReturn(e) ==
  /\ pcH[e] = "in_user"
  /\ userReturned' = [userReturned EXCEPT ![e] = TRUE]
  /\ pcH' = [pcH EXCEPT ![e] = "del_destroy"]
  /\ UNCHANGED <<prodVars, entry, entryMem, record, sig, asyncReg, origSig,
                 listVars, mutex_, dtorVars, loc, calls, removals, destroys, ub>>

\* line 197: entry->tracker->Delete(entry), statement by statement
HandlerDelDestroy(e) ==
  /\ pcH[e] = "del_destroy"
  /\ DeleteDestroy(e)
  /\ pcH' = [pcH EXCEPT ![e] = "del_lock"]
  /\ UNCHANGED <<prodVars, entry, record, asyncReg, origSig, dtorVars,
                 loc, histVars>>

HandlerDelLock(e) ==
  /\ pcH[e] = "del_lock"
  /\ DeleteLock(e, Callback(e))
  /\ pcH' = [pcH EXCEPT ![e] = "del_erase"]
  /\ UNCHANGED <<prodVars, entry, record, asyncReg, origSig, dtorVars,
                 loc, histVars>>

HandlerDelErase(e) ==
  /\ pcH[e] = "del_erase"
  /\ mutex_ = Callback(e)
  /\ DeleteErase(e)
  /\ pcH' = [pcH EXCEPT ![e] = "del_free"]
  /\ UNCHANGED <<prodVars, entry, record, asyncReg, origSig, dtorVars,
                 loc, histVars>>

\* line 199: return false; a callback that returns true stays registered
HandlerRet == FALSE

\* Delete's last statement, then Handler returns
HandlerDelFree(e) ==
  /\ pcH[e] = "del_free"
  /\ DeleteFree(e)
  /\ IF HandlerRet
       THEN pcH' = [pcH EXCEPT ![e] = "none"] /\ UNCHANGED asyncReg
       ELSE pcH' = [pcH EXCEPT ![e] = "done"]
            /\ asyncReg' = [asyncReg EXCEPT ![e] = FALSE]
  /\ UNCHANGED <<prodVars, entry, record, origSig, dtorVars,
                 loc, histVars>>

----------------------------------------------------------------------------
\* ~Tracker (lines 68-76)

Quiescent(e) == pcA[e] \in {"idle", "raised_create", "raised_register", "enabled"}

\* the undefined behaviour of ~Tracker's next statement
DtorStepUB ==
  CASE pcD = "loop" -> NodeUaf(it)
    [] pcD = "wait" -> NodeUaf(cur) \cup EntryUaf(cur)
    [] pcD = "del_destroy" -> NodeUaf(cur) \cup DeleteStepUB(pcD, cur)
    [] pcD \in {"del_lock", "del_erase", "del_free"} ->
         DeleteStepUB(pcD, cur)
    [] OTHER -> {}

\* lines 69-70: it = sig_list_.begin(); end = sig_list_.end()
DtorStart ==
  /\ pcD = "idle"
  /\ \A e \in Entries : Quiescent(e)
  /\ it' = nxt[END]
  /\ pcD' = "loop"
  /\ UNCHANGED <<prodVars, pcH, entry, entryMem, record, sig, asyncReg,
                 origSig, listVars, mutex_, trackerAlive, cur, loc,
                 histVars, removals, destroys, ub>>

\* lines 71-72: while (it != end) { cur = it++; ; else the members are destroyed
DtorLoop ==
  /\ pcD = "loop"
  /\ \/ /\ it # END
        /\ cur' = it
        /\ it' = nxt[it]
        /\ pcD' = "wait"
        /\ ub' = (ub \/ {} # DtorStepUB)
        /\ UNCHANGED trackerAlive
     \/ /\ it = END
        /\ pcD' = "done"
        /\ trackerAlive' = FALSE
        /\ UNCHANGED <<it, cur, ub>>
  /\ UNCHANGED <<prodVars, pcH, entry, entryMem, record, sig, asyncReg,
                 origSig, listVars, mutex_, loc, histVars, removals,
                 destroys>>

\* line 73: hsa_rsrc_->SignalWait((*cur)->signal)
DtorWait ==
  /\ pcD = "wait"
  /\ SignalWaitDone(cur)
  /\ pcD' = "del_destroy"
  /\ ub' = (ub \/ {} # DtorStepUB)
  /\ UNCHANGED <<prodVars, pcH, entry, entryMem, record, sig, asyncReg,
                 origSig, listVars, mutex_, trackerAlive, it, cur, loc,
                 histVars, removals, destroys>>

\* line 74: Erase(cur), that is Delete(*cur), statement by statement
DtorDelDestroy ==
  /\ pcD = "del_destroy"
  /\ DeleteDestroy(cur)
  /\ pcD' = "del_lock"
  /\ UNCHANGED <<prodVars, pcH, entry, record, asyncReg, origSig,
                 trackerAlive, it, cur, loc, histVars>>

DtorDelLock ==
  /\ pcD = "del_lock"
  /\ DeleteLock(cur, Dtor)
  /\ pcD' = "del_erase"
  /\ UNCHANGED <<prodVars, pcH, entry, record, asyncReg, origSig,
                 trackerAlive, it, cur, loc, histVars>>

DtorDelErase ==
  /\ pcD = "del_erase"
  /\ mutex_ = Dtor
  /\ DeleteErase(cur)
  /\ pcD' = "del_free"
  /\ UNCHANGED <<prodVars, pcH, entry, record, asyncReg, origSig,
                 trackerAlive, it, cur, loc, histVars>>

DtorDelFree ==
  /\ pcD = "del_free"
  /\ DeleteFree(cur)
  /\ pcD' = "loop"
  /\ UNCHANGED <<prodVars, pcH, entry, record, asyncReg, origSig,
                 trackerAlive, it, cur, loc, histVars>>

----------------------------------------------------------------------------
Next ==
  \/ \E e \in Entries :
       \/ AllocCreate(e) \/ AllocRegister(e) \/ AllocLock(e) \/ AllocInsert(e)
       \/ EnableHsa(e) \/ EnableRocp(e) \/ EnableStore(e)
       \/ SignalDrop(e)
       \/ HandlerFire(e) \/ HandlerSpin(e) \/ HandlerComplete(e)
       \/ HandlerOrig(e) \/ HandlerLoad(e) \/ HandlerStore(e)
       \/ HandlerCall(e) \/ HandlerUserReturn(e)
       \/ HandlerDelDestroy(e) \/ HandlerDelLock(e) \/ HandlerDelErase(e)
       \/ HandlerDelFree(e)
  \/ DtorStart \/ DtorLoop \/ DtorWait
  \/ DtorDelDestroy \/ DtorDelLock \/ DtorDelErase \/ DtorDelFree

Spec == Init /\ [][Next]_vars

----------------------------------------------------------------------------
\* Derived state used by the properties.

Raised == {"raised_create", "raised_register"}

\* Handler has called the user handler (and may have gone on)
AfterCall == {"in_user", "del_destroy", "del_lock", "del_erase", "del_free", "done"}

\* the nodes reached from begin() by following next pointers
RECURSIVE Walk(_, _)
Walk(n, k) == IF n = END \/ k = 0 THEN {} ELSE {n} \cup Walk(nxt[n], k - 1)

ListMembers == Walk(nxt[END], MaxEntries)

\* entry e has been taken out of the registry in some part
Removed(e) == removals[e] > 0 \/ destroys[e] > 0 \/ entryMem[e] = "freed"

----------------------------------------------------------------------------
\* C1: Alloc, Enable(handler, arg) and the proxy signal dropping below 1 give
\* exactly one invocation of the user handler, with the handler and the
\* argument given to Enable; no entry's user handler is invoked twice, in any
\* interleaving, ~Tracker included.
C1_ExactlyOneInvocation ==
  \A e \in Entries :
    /\ Len(calls[e]) <= 1
    /\ \A i \in 1..Len(calls[e]) :
         /\ calls[e][i].handler = enable[e].handler
         /\ calls[e][i].arg = enable[e].arg
    /\ pcH[e] \in AfterCall => Len(calls[e]) = 1

\* C2: the user handler is not invoked and Complete is not started for an
\* entry before Enable has stored a non-null handler into entry->handler, also
\* when the callback runs before Enable has run or returned.
C2_NothingBeforeArmed ==
  \A e \in Entries :
    (pcH[e] \notin {"none", "spin"} \/ calls[e] # <<>>)
      => (pcA[e] = "enabled" /\ entry[e].handler = enable[e].handler
          /\ enable[e].handler # NULL)

\* C2's case: the callback is already running while Enable has written arg
\* and has not yet stored the handler.
C2_Witness ==
  \E e \in Entries : pcH[e] = "spin" /\ pcA[e] = "en_store"

\* C3: no entry is erased from the list, has its proxy signal destroyed or is
\* freed before its user handler has returned, whether Handler or ~Tracker
\* removes it.  Stated for the entries whose user handler has been invoked:
\* none of them is removed while the handler is still running.
C3_RemovedOnlyAfterHandlerReturned ==
  \A e \in Entries :
    (Removed(e) /\ calls[e] # <<>>) => userReturned[e]

\* C4: sig_list_.erase is executed at most once for an entry, over all
\* interleavings of Handler and ~Tracker.
C4_ErasedAtMostOnce ==
  \A e \in Entries : removals[e] <= 1

\* C5: no thread reads or writes an entry, a list node, the proxy signal or
\* the Tracker's list and mutex after that object has been freed or destroyed.
C5_NoUseAfterFree == ~ub

\* C6: when ~Tracker returns, every entry that was in the registry has a proxy
\* signal below 1 and the list is empty.
C6_DrainedOnReturn ==
  pcD = "done" =>
    /\ nxt[END] = END
    /\ \A e \in Entries : nodeMem[e] # "none" => sig[e].value < 1

\* C7: for an entry allocated with a non-null original signal, Complete leaves
\* the original signal with the proxy signal's start_ts and end_ts and with a
\* value one less than its value just before.
C7_OrigForwarded ==
  [][\A e \in Entries :
       /\ (pcH[e] = "store" /\ pcH'[e] = "call") =>
            /\ origSig'.value = origSig.value - 1
            /\ origSig'.start_ts = sig[e].start_ts
            /\ origSig'.end_ts = sig[e].end_ts
       /\ (pcH[e] = "orig" /\ pcH'[e] = "call") => entry[e].orig = NullHandle
    ]_vars

\* C8: a proxy signal that Alloc created is destroyed exactly once, and only
\* once it is below 1: not twice, and not left alive when Alloc raises because
\* the callback registration failed.
C8_SignalDestroyedOnce ==
  \A e \in Entries :
    /\ destroys[e] <= 1
    /\ destroys[e] > 0 => sig[e].value < 1
    /\ pcA[e] = "raised_register" => sig[e].state # "live"

\* C9: when hsa_signal_create or hsa_amd_signal_async_handler fails in Alloc,
\* the error is raised, Alloc goes no further (no entry is returned), the list
\* is as it was, and no callback is registered for the entry.
C9_AllocFailureLeavesNothing ==
  [][\A e \in Entries :
       pcA'[e] \in Raised =>
         /\ nodeMem'[e] = "none"
         /\ entry'[e].it = END
         /\ e \notin ListMembers'
         /\ ~asyncReg'[e]
         /\ pcH'[e] = "none"
         /\ pcA[e] \notin Raised => UNCHANGED listVars
         /\ pcA[e] \in Raised => pcA'[e] = pcA[e]
    ]_vars

\* C9's case: the registration of one entry has failed while another entry is
\* in the list.
C9_Witness ==
  \E e, f \in Entries :
    pcA[e] = "raised_register" /\ f \in ListMembers /\ nodeMem[f] = "live"

\* C10: a step of one entry's callback (Complete, the user handler, Delete)
\* leaves every other entry's record, handler field, argument and
\* discriminator as they were, and neither starts, advances nor blocks the
\* other entry's callback.
C10_CompletionFrame ==
  [][\A e \in Entries :
       pcH'[e] # pcH[e] =>
         \A f \in Entries \ {e} :
           /\ record'[f] = record[f]
           /\ entry'[f].handler = entry[f].handler
           /\ entry'[f].arg = entry[f].arg
           /\ entry'[f].context_active = entry[f].context_active
           /\ calls'[f] = calls[f]
           /\ pcH'[f] = pcH[f]
           /\ asyncReg'[f] = asyncReg[f]
           /\ sig'[f].value = sig[f].value
    ]_vars

\* C10's case: two entries of the same agent are allocated and armed, one has
\* completed and is gone, the other is not yet stamped.
C10_Witness ==
  \E e, f \in Entries :
    /\ e # f
    /\ entry[e].agent = entry[f].agent
    /\ pcH[e] = "done"
    /\ pcA[f] = "enabled"
    /\ pcH[f] \in {"none", "spin", "complete"}
    /\ record[f].complete = 0
    /\ record[e].complete # 0

\* C11: for an entry allocated with a null original signal handle, completion
\* still stamps the record and invokes the user handler exactly once with the
\* armed argument, and neither reads nor writes the original signal: no
\* timestamp copy, no value load, no value store.
C11_NullOrigUntouched ==
  [][\A e \in Entries :
       (entry[e].orig = NullHandle /\ pcH'[e] # pcH[e]) =>
         /\ origSig' = origSig
         /\ pcH'[e] \notin {"load", "store"}
         /\ pcH'[e] = "in_user" =>
              /\ record'[e].begin = SysclockToNs(HwStart(e))
              /\ record'[e].end = SysclockToNs(HwEnd(e))
              /\ record'[e].complete = TimestampNs
              /\ Len(calls'[e]) = 1
              /\ calls'[e][1].handler = enable[e].handler
              /\ calls'[e][1].arg = enable[e].arg
    ]_vars

\* C12: when hsa_amd_profiling_get_dispatch_time fails in Complete, the error
\* is raised on the completion thread and the completion goes no further: the
\* record's begin, end and complete are not written, the original signal is
\* not modified, the user handler is not invoked and the callback does not
\* remove the entry.
C12_TimeQueryFailureStops ==
  [][\A e \in Entries :
       /\ pcH'[e] = "raised_time" =>
            /\ record'[e] = [record_t EXCEPT !.dispatch = TimestampNs]
            /\ calls'[e] = <<>>
            /\ ~userReturned'[e]
            /\ loc'[e] = [orig |-> NullHandle, value |-> 0]
       /\ (pcH[e] = "complete" /\ pcH'[e] = "raised_time") =>
            /\ origSig' = origSig
            /\ UNCHANGED <<entry, entryMem, sig, listVars, mutex_, removals,
                           destroys>>
       /\ pcH[e] = "raised_time" => pcH'[e] = "raised_time"
    ]_vars

\* C12's case: the timestamp query of an armed entry with a non-null original
\* signal has failed, after another entry has completed and been removed.
C12_Witness ==
  \E e, f \in Entries :
    /\ pcH[e] = "raised_time"
    /\ entry[e].orig = OrigHandle
    /\ pcA[e] = "enabled"
    /\ pcH[f] = "done"

\* Handler is past Complete's store (line 173) for the entry
PastStore == {"call"} \cup AfterCall

\* the entries whose callback has decremented the original signal
Decremented == {e \in Entries : pcH[e] \in PastStore /\ loc[e].orig = OrigHandle}

\* C13 as stated: Complete's decrement of the original signal is atomic; when
\* two entries share the same non-null original signal and their callbacks run
\* on different notification threads in any interleaving, no decrement is
\* lost, and after both completions the value is exactly two less than
\* before.  Stated for the runs without any use after free.
C13_AtomicDecrement ==
  \A e, f \in Entries :
    (/\ e # f
     /\ ~ub
     /\ entry[e].orig = OrigHandle /\ entry[f].orig = OrigHandle
     /\ e \in Decremented /\ f \in Decremented)
      => origSig.value = OrigInitValue - 2

\* C13 amended: the decrement is a load followed by a store of the loaded
\* value minus one.  The value after the store is one less than the value
\* before it when no other writer has changed the signal since the load; the
\* value is never raised, and the callbacks that share the signal lower it by
\* at least one and at most one each.
C13_DecrementLoadThenStore ==
  [][/\ \A e \in Entries :
          /\ (pcH[e] = "load" /\ pcH'[e] = "store") =>
               /\ loc'[e].value = origSig.value
               /\ origSig' = origSig
          /\ (pcH[e] = "store" /\ pcH'[e] = "call") =>
               /\ origSig'.value = loc[e].value - 1
               /\ origSig.value <= loc[e].value
               /\ origSig.value = loc[e].value =>
                    origSig'.value = origSig.value - 1
     /\ origSig'.value <= origSig.value
     /\ Decremented' # {} =>
          /\ origSig'.value <= OrigInitValue - 1
          /\ origSig'.value >= OrigInitValue - Cardinality(Decremented')
    ]_vars

\* C13's case: two entries share the original signal, both callbacks have
\* stored, one after the other, and both decrements are there.
C13_Witness ==
  \E e, f \in Entries :
    /\ e # f
    /\ ~ub
    /\ entry[e].orig = OrigHandle /\ entry[f].orig = OrigHandle
    /\ e \in Decremented /\ f \in Decremented
    /\ origSig.value = OrigInitValue - 2

\* ~Tracker's next step reads the list: begin() (line 69), it++ and the
\* comparison with end() (lines 71-72), *cur (line 73)
DtorListAccess ==
  \/ pcD = "idle" /\ pcD' = "loop"
  \/ pcD = "loop" /\ pcD' # "loop"
  \/ pcD = "wait" /\ pcD' = "del_destroy"

\* C14: every access to the membership list (the insertion in Alloc, the erase
\* in Delete, and begin/advance/dereference in the drain loop of ~Tracker)
\* happens while the registry mutex is held, so no two threads ever access
\* the list at the same time: an insertion or an erase is done by the owner of
\* mutex_, and ~Tracker does not read the list while another thread is inside
\* its locked insertion or erase.
C14_ListAccessUnderMutex ==
  [][/\ \A e \in Entries :
          /\ (pcA[e] = "locked" /\ pcA'[e] = "allocated") => mutex_ = Producer(e)
          /\ (pcH[e] = "del_erase" /\ pcH'[e] = "del_free") => mutex_ = Callback(e)
     /\ (pcD = "del_erase" /\ pcD' = "del_free") => mutex_ = Dtor
     /\ DtorListAccess => mutex_ \in {Free, Dtor}
    ]_vars

\* the calling convention an Enable overload selects
ConvOf(hsa) == IF hsa THEN "hsa" ELSE "rocp"

\* C15: every entry field the completion path reads (agent, orig, record, arg,
\* context_active, the list position it, tracker) is written by the
\* allocating and arming thread before Enable's release store of the handler,
\* and the callback reads none of them before its acquire load has seen a
\* non-null handler; so the callback never sees a stale arg or discriminator
\* for the handler it invokes.
C15_FieldsPublishedBeforeRead ==
  \A e \in Entries :
    /\ pcA[e] \in {"en_store", "enabled"} =>
         /\ entry[e].tracker = "this"
         /\ entry[e].agent \in Agents
         /\ entry[e].signal = e
         /\ entry[e].it = e
         /\ record[e].dispatch = TimestampNs
         /\ entry[e].arg = enable[e].arg
         /\ entry[e].context_active = enable[e].hsa
    /\ pcH[e] \notin {"none", "spin"} =>
         /\ pcA[e] = "enabled"
         /\ entry[e].handler = enable[e].handler
    /\ pcH[e] \in {"load", "store"} \cup PastStore => loc[e].orig = entry[e].orig
    /\ \A i \in 1..Len(calls[e]) :
         /\ calls[e][i].arg = entry[e].arg
         /\ calls[e][i].conv = ConvOf(entry[e].context_active)

\* C16: for every entry the record's begin, end and complete timestamps (and,
\* for a non-null original signal, the forwarded timestamps and the decrement)
\* are written before the user handler is invoked, so the user handler always
\* finds a fully stamped record and an already signalled original signal.
C16_StampedBeforeHandler ==
  \A e \in Entries :
    calls[e] # <<>> =>
      /\ record[e].begin = SysclockToNs(HwStart(e))
      /\ record[e].end = SysclockToNs(HwEnd(e))
      /\ record[e].complete = TimestampNs
      /\ entry[e].orig # NullHandle =>
           /\ e \in Decremented
           /\ origSig.start_ts # 0
           /\ origSig.end_ts # 0
           /\ origSig.value < OrigInitValue

\* C17: exactly one handler calling convention is executed per entry and it is
\* the one selected at arming: an entry armed through the
\* hsa_amd_signal_handler overload is invoked as handler(0, arg), an entry
\* armed through the rocprofiler_handler_t overload as handler(group{}, arg),
\* and never the other way round.
C17_ConventionAsArmed ==
  \A e \in Entries :
    /\ Len(calls[e]) <= 1
    /\ pcH[e] \in AfterCall => Len(calls[e]) = 1
    /\ \A i \in 1..Len(calls[e]) :
         /\ calls[e][i].conv = ConvOf(enable[e].hsa)
         /\ calls[e][i].conv = "hsa" => calls[e][i].handler \in HsaHandlers
         /\ calls[e][i].conv = "rocp" => calls[e][i].handler \in RocpHandlers

\* C18: when an entry's proxy signal reaches the threshold and Enable is never
\* called for it, the callback stays in its wait loop: for as long as the
\* handler is null it does not run Complete, invokes no handler, does not
\* remove the entry and does not return.
C18_UnarmedCallbackSpins ==
  [][\A e \in Entries :
       (pcH[e] = "spin" /\ entry[e].handler = NULL) =>
         /\ pcH'[e] = "spin"
         /\ record'[e] = [record_t EXCEPT !.dispatch = TimestampNs]
         /\ calls'[e] = <<>>
         /\ loc'[e] = loc[e]
         /\ removals'[e] = 0 /\ destroys'[e] = 0
         /\ entryMem'[e] = "live" /\ nodeMem'[e] # "freed"
         /\ sig'[e] = sig[e]
         /\ asyncReg'[e]
    ]_vars

\* C18's case: the proxy signal of an allocated entry is at 0, Enable has not
\* been called for it and its callback is in the wait loop, while another
\* entry has gone through its whole completion.
C18_Witness ==
  \E e, f \in Entries :
    /\ pcH[e] = "spin"
    /\ pcA[e] = "allocated"
    /\ entry[e].handler = NULL
    /\ sig[e].value = 0
    /\ pcH[f] = "done"

\* C20: although Alloc registers the callback before it inserts the entry,
\* the callback's Delete never erases an entry that has not been inserted yet:
\* with Enable called only after Alloc has returned, entry->it is a valid
\* position of that same entry when the callback erases it, and every entry
\* on which the callback runs Delete is a current member of the list.
C20_CallbackErasesMember ==
  \A e \in Entries :
    pcH[e] \in {"del_destroy", "del_lock", "del_erase"} =>
      /\ pcA[e] = "enabled"
      /\ entry[e].it = e
      /\ nodeMem[e] = "live"
      /\ e \in ListMembers

----------------------------------------------------------------------------
\* Scheduling.  A notification thread that has work to do for entry e (the
\* runtime starting the callback, and every statement of Handler) is
\* eventually run, the user handler returns, a thread inside Alloc's critical
\* section leaves it, and ~Tracker, once called, keeps running.  This holds
\* for as long as no undefined behaviour has occurred: after a use of freed
\* memory or a second delete of an entry the process may be stopped.

HandlerStep(e) ==
  \/ HandlerFire(e) \/ HandlerSpin(e) \/ HandlerComplete(e)
  \/ HandlerOrig(e) \/ HandlerLoad(e) \/ HandlerStore(e)
  \/ HandlerCall(e) \/ HandlerUserReturn(e)
  \/ HandlerDelDestroy(e) \/ HandlerDelLock(e) \/ HandlerDelErase(e)
  \/ HandlerDelFree(e)

DtorStep ==
  \/ DtorLoop \/ DtorWait
  \/ DtorDelDestroy \/ DtorDelLock \/ DtorDelErase \/ DtorDelFree

Fairness ==
  /\ \A e \in Entries : WF_vars(~ub /\ HandlerStep(e))
  /\ \A e \in Entries : WF_vars(~ub /\ AllocInsert(e))
  /\ WF_vars(~ub /\ DtorStep)

FairSpec == Init /\ [][Next]_vars /\ Fairness

\* C19: under fair scheduling, with no runtime error and a user handler that
\* returns, every successfully allocated entry that is armed and whose proxy
\* signal has dropped below 1 is eventually removed from the registry, and
\* its callback returns false (do not re-arm), so the runtime never invokes
\* the callback a second time for that signal.
C19_EventuallyRemoved ==
  /\ \A e \in Entries :
       (pcA[e] = "enabled" /\ sig[e].value < 1 /\ nodeMem[e] # "none")
         ~> (removals[e] > 0 \/ pcH[e] = "raised_time")
  /\ [][\A e \in Entries :
          /\ (pcH[e] = "del_free" /\ pcH'[e] # "del_free") =>
               (pcH'[e] = "done" /\ ~asyncReg'[e])
          /\ pcH[e] = "done" => pcH'[e] = "done"
      ]_vars

====
